---- MODULE Spec2Model ----
(***************************************************************************)
(* The tool-calling agent loop of the travel assistant: the LangGraph      *)
(* state graph built by agents/agent.py (call_tools_llm <-> invoke_tools,  *)
(* with the per-instance failure counter and the fallback plan) and the    *)
(* Streamlit session that drives it from travel_assistant.py               *)
(* (send_message, its exception handler, the Clear Conversation button).   *)
(***************************************************************************)
EXTENDS Integers, Sequences, FiniteSets, TLC

\* ------------------------------------------------------------------------
\* Bounds of the model
\* ------------------------------------------------------------------------
MaxLlmCalls == 5    \* llm_calls value up to which call_tools_llm is explored
MaxTurns == 2       \* calls of send_message explored in one run
MaxThreads == 2     \* thread identifiers the session can go through
MaxCallId == 4      \* call identifiers tried on a single tool call
DaysMargin == 2     \* days tried before today and beyond the forecast horizon
MaxBestFlights == 7 \* largest number of options in an upstream flight response
MaxWorkerPasses == 2 \* tool passes of one of two concurrent runs

\* ------------------------------------------------------------------------
\* Program constants
\* ------------------------------------------------------------------------
max_retries == 3    \* Agent._max_retries
max_forecast_days == 14    \* weather_check
flights_max_retries == 3   \* flights_finder: max_retries
flights_returned == 5      \* flights_finder: formatted_results[:5]

TOOLS == {"flights_finder", "hotels_finder", "weather_check"}

TOOLS_SYSTEM_PROMPT == "You are a smart travel agency. Use the tools to look up information."

\* ------------------------------------------------------------------------
\* Messages (langchain_core.messages), one record shape for all four types
\* ------------------------------------------------------------------------
SystemMessage(content) ==
    [type |-> "system", content |-> content, tool_calls |-> <<>>,
     tool_call_id |-> 0, name |-> "", id |-> 0]

HumanMessage(content) ==
    [type |-> "human", content |-> content, tool_calls |-> <<>>,
     tool_call_id |-> 0, name |-> "", id |-> 0]

ToolMessage(tool_call_id, name, content) ==
    [type |-> "tool", content |-> content, tool_calls |-> <<>>,
     tool_call_id |-> tool_call_id, name |-> name, id |-> 0]

\* The assistant message the provider returns for model invocation number
\* serial: free text plus zero or more tool-call requests, each with a
\* provider-issued call identifier.
AIMessage(serial, content, names) ==
    [type |-> "ai", content |-> content,
     tool_calls |-> [i \in 1..Len(names) |-> [name |-> names[i], id |-> 10 * serial + i]],
     tool_call_id |-> 0, name |-> "", id |-> serial]

Last(s) == s[Len(s)]

\* ------------------------------------------------------------------------
\* Environment: what the tools and the model can answer
\* ------------------------------------------------------------------------
\* What a tool implementation does when invoked: it returns a plain value
\* (kind "value": a result list, or a map without an "error" key), returns a
\* map with an "error" key (kind "error_map"), or raises (kind "raise").
\* text is the string form of the value, the error text of the map, or the
\* exception's message.  flights_finder and weather_check turn their
\* failures into error maps, hotels_finder re-raises them.
ErrorText == "API key missing"

ToolOutcomes(tool_name) ==
    CASE tool_name = "flights_finder" ->
           {[kind |-> "value", text |-> "[flights]"],
            [kind |-> "error_map", text |-> ErrorText]}
      [] tool_name = "hotels_finder" ->
           {[kind |-> "value", text |-> "[hotels]"],
            [kind |-> "raise", text |-> ErrorText]}
      [] tool_name = "weather_check" ->
           {[kind |-> "value", text |-> "{weather}"],
            [kind |-> "error_map", text |-> ErrorText]}
      [] OTHER -> {[kind |-> "none", text |-> ""]}

\* The tool-call lists the model may request in one response (<<>>: a
\* final answer).  "car_rental" is a name absent from the registry.
ToolCallRequests ==
    { <<>>,
      <<"flights_finder", "hotels_finder">>,
      <<"car_rental", "weather_check">> }

Answers == {"Here is your plan."}

\* Final answers that quote a tool result the model has just been given:
\* the error string of a failed flights_finder or hotels_finder call among
\* the tool-result messages that end the history.
DegradedAnswers(history) ==
    {"Here is your plan. " \o history[k].content : k \in
        {k \in 1..Len(history) :
            /\ \A j \in k..Len(history) : history[j].type = "tool"
            /\ history[k].name \in {"flights_finder", "hotels_finder"}
            /\ history[k].content # "[flights]"
            /\ history[k].content # "[hotels]"}}

\* The responses of the model to a history: tool-call requests, or a final
\* answer.
ModelReplies(history) ==
    {[names |-> n, content |-> c] : n \in ToolCallRequests \ {<<>>}, c \in Answers}
        \cup {[names |-> <<>>, content |-> c] : c \in Answers \cup DegradedAnswers(history)}

UserPrompts == {"Plan Sydney to Melbourne"}

\* One outcome per requested call, in request order.
OutcomesFor(tool_calls) ==
    {outs \in [1..Len(tool_calls) -> UNION {ToolOutcomes(n) : n \in TOOLS \cup {"car_rental"}}] :
        \A i \in 1..Len(tool_calls) : outs[i] \in ToolOutcomes(tool_calls[i].name)}

\* ------------------------------------------------------------------------
\* Pure functions of agents/agent.py
\* ------------------------------------------------------------------------
\* str.upper() on the tool names that occur.
upper(tool_name) ==
    CASE tool_name = "flights_finder" -> "FLIGHTS_FINDER"
      [] tool_name = "hotels_finder" -> "HOTELS_FINDER"
      [] tool_name = "weather_check" -> "WEATHER_CHECK"
      [] tool_name = "car_rental" -> "CAR_RENTAL"
      [] OTHER -> tool_name

\* Variant that leaves the tool name as it is.
format_error_message_plain_name(tool_name, error) ==
    "[" \o tool_name \o " ERROR] " \o error
        \o ". The assistant will continue with available information."

format_error_message(tool_name, error) ==
    "[" \o upper(tool_name) \o " ERROR] " \o error
        \o ". The assistant will continue with available information."

\* ', '.join(failed_tools)
RECURSIVE join(_)
join(names) ==
    IF names = <<>> THEN ""
    ELSE IF Len(names) = 1 THEN names[1]
    ELSE names[1] \o ", " \o join(Tail(names))

fallback_prompt(original_prompt, failed_tools) ==
    "The following tools failed: " \o join(failed_tools)
        \o ". Original request: " \o original_prompt
        \o " Please generate a travel plan using only the information we have available."

\* Variant of exists_action that routes every response to the tools.
exists_action_always_tools(state_messages) == "more_tools"

\* Variant that hands the history to the model as it is.
without_system_prompt(state_messages) == state_messages

\* "[SystemMessage(content=TOOLS_SYSTEM_PROMPT)] + messages"
with_system_prompt(state_messages) ==
    <<SystemMessage(TOOLS_SYSTEM_PROMPT)>> \o state_messages

\* Agent.exists_action: the conditional edge out of call_tools_llm.
exists_action(state_messages) ==
    IF Len(Last(state_messages).tool_calls) > 0 THEN "more_tools" ELSE "done"

\* The edge map {'more_tools': 'invoke_tools', 'done': END}.
edge_target(branch) == IF branch = "more_tools" THEN "invoke_tools" ELSE "END"

\* Variant of the reducer that overwrites the history (no reducer declared).
operator_add_overwrite(old, new) == new

\* The reducer of AgentState.messages (operator.add): a node's returned
\* messages are appended to the thread's persisted history.
operator_add(old, new) == old \o new

\* Variant of call_tool without the registry check: the dictionary lookup
\* of an unknown name raises KeyError, whose text is the quoted name.
call_tool_without_lookup(tool_call, out) ==
    IF tool_call.name \notin TOOLS
    THEN [failed |-> TRUE, invoked |-> FALSE,
          message |-> ToolMessage(tool_call.id, tool_call.name,
                         format_error_message(tool_call.name,
                             "'" \o tool_call.name \o "'"))]
    ELSE IF out.kind = "raise"
    THEN [failed |-> TRUE, invoked |-> TRUE,
          message |-> ToolMessage(tool_call.id, tool_call.name,
                         format_error_message(tool_call.name, out.text))]
    ELSE IF out.kind = "error_map"
    THEN [failed |-> TRUE, invoked |-> TRUE,
          message |-> ToolMessage(tool_call.id, tool_call.name,
                         format_error_message(tool_call.name, out.text))]
    ELSE [failed |-> FALSE, invoked |-> TRUE,
          message |-> ToolMessage(tool_call.id, tool_call.name, out.text)]

\* Variant of call_tool without the check for an "error" key in the
\* returned map: the map is passed on as a successful result.
call_tool_ignoring_error_map(tool_call, out) ==
    IF tool_call.name \notin TOOLS
    THEN [failed |-> TRUE, invoked |-> FALSE,
          message |-> ToolMessage(tool_call.id, tool_call.name,
                         format_error_message(tool_call.name,
                             "Tool '" \o tool_call.name \o "' not found"))]
    ELSE IF out.kind = "raise"
    THEN [failed |-> TRUE, invoked |-> TRUE,
          message |-> ToolMessage(tool_call.id, tool_call.name,
                         format_error_message(tool_call.name, out.text))]
    ELSE [failed |-> FALSE, invoked |-> TRUE,
          message |-> ToolMessage(tool_call.id, tool_call.name,
                         "{'error': '" \o out.text \o "'}")]

\* One iteration of the for loop of invoke_tools: the tool-result message
\* for one request, whether its name goes to failed_tools and whether the
\* tool implementation was invoked.
call_tool(tool_call, out) ==
    IF tool_call.name \notin TOOLS
    THEN [failed |-> TRUE, invoked |-> FALSE,
          message |-> ToolMessage(tool_call.id, tool_call.name,
                         format_error_message(tool_call.name,
                             "Tool '" \o tool_call.name \o "' not found"))]
    ELSE IF out.kind = "raise"
    THEN [failed |-> TRUE, invoked |-> TRUE,
          message |-> ToolMessage(tool_call.id, tool_call.name,
                         format_error_message(tool_call.name, out.text))]
    ELSE IF out.kind = "error_map"
    THEN [failed |-> TRUE, invoked |-> TRUE,
          message |-> ToolMessage(tool_call.id, tool_call.name,
                         format_error_message(tool_call.name, out.text))]
    ELSE [failed |-> FALSE, invoked |-> TRUE,
          message |-> ToolMessage(tool_call.id, tool_call.name, out.text)]

\* Variant of the loop whose failure branches record the name but append
\* no tool-result message.
RECURSIVE process_tool_calls_dropping_failed(_, _, _, _, _)
process_tool_calls_dropping_failed(tool_calls, outs, i, results, failed_tools) ==
    IF i > Len(tool_calls)
    THEN [results |-> results, failed_tools |-> failed_tools]
    ELSE LET r == call_tool(tool_calls[i], outs[i])
         IN process_tool_calls_dropping_failed(tool_calls, outs, i + 1,
                IF r.failed THEN results ELSE Append(results, r.message),
                IF r.failed THEN Append(failed_tools, tool_calls[i].name)
                ELSE failed_tools)

\* The for loop of invoke_tools over the requests at positions i..N, with
\* the lists results and failed_tools built so far.
RECURSIVE process_tool_calls(_, _, _, _, _)
process_tool_calls(tool_calls, outs, i, results, failed_tools) ==
    IF i > Len(tool_calls)
    THEN [results |-> results, failed_tools |-> failed_tools]
    ELSE LET r == call_tool(tool_calls[i], outs[i])
         IN process_tool_calls(tool_calls, outs, i + 1,
                Append(results, r.message),
                IF r.failed THEN Append(failed_tools, tool_calls[i].name)
                ELSE failed_tools)

\* Variant that counts consecutive failing passes: a pass without a failed
\* call resets the counter.
count_failure_consecutive(count, failed_tools) ==
    IF failed_tools # <<>> THEN count + 1 ELSE 0

\* Variant that starts the count anew once the threshold was reached.
count_failure_anew_at_threshold(count, failed_tools) ==
    IF failed_tools # <<>>
    THEN (IF count >= max_retries THEN 1 ELSE count + 1)
    ELSE (IF count >= max_retries THEN 0 ELSE count)

\* Variant that counts every failed call of the pass.
count_failure_per_call(count, failed_tools) == count + Len(failed_tools)

\* "if failed_tools: self._error_count += 1"
count_failure(count, failed_tools) ==
    IF failed_tools # <<>> THEN count + 1 ELSE count

\* "error_marker in assistant_response" (substring test)
Contains(text, marker) ==
    \E k \in 1..(Len(text) - Len(marker) + 1) :
        SubSeq(text, k, k + Len(marker) - 1) = marker

\* ------------------------------------------------------------------------
\* Vocabulary of the properties
\* ------------------------------------------------------------------------
\* A tool call failed: its tool is not registered, or the tool raised or
\* returned a map with an "error" key.
CallFailed(tool_call, out) ==
    \/ tool_call.name \notin TOOLS
    \/ out.kind \in {"raise", "error_map"}

IsPrefix(s, t) == Len(s) <= Len(t) /\ SubSeq(t, 1, Len(s)) = s

\* In history h, every assistant message with N >= 1 tool-call requests is
\* followed by exactly N tool-result messages answering them in order.
WellPaired(h) ==
    \A i \in 1..Len(h) :
        (h[i].type = "ai" /\ Len(h[i].tool_calls) > 0) =>
            LET N == Len(h[i].tool_calls)
            IN /\ i + N <= Len(h)
               /\ \A k \in 1..N :
                     /\ h[i + k].type = "tool"
                     /\ h[i + k].tool_call_id = h[i].tool_calls[k].id
               /\ (i + N < Len(h) => h[i + N + 1].type # "tool")

\* ------------------------------------------------------------------------
\* State
\* ------------------------------------------------------------------------
VARIABLES
    error_count,    \* Agent._error_count of the session's Agent instance
    messages,       \* MemorySaver of that instance: thread id -> AgentState.messages
    thread_id,      \* st.session_state.thread_id
    chat,           \* st.session_state.messages (the displayed chat)
    warning,        \* whether the last send_message showed the st.warning banner
    pc,             \* position of the running turn: "idle", a graph node, "END" or "raised"
    llm_input,      \* the message list handed to the latest model invocation
    llm_calls,      \* number of model invocations made so far
    turns,          \* number of send_message calls so far
    pass,           \* record of the latest pass through invoke_tools
    turn_passes,    \* passes through invoke_tools in the running turn
    turn_failing,   \* those of them with at least one failed tool call
    turn_fallbacks, \* fallback requests sent in the running turn
    turn_base,      \* the thread's history when the running turn was started
    probe,          \* one tool failing in both ways, handed to the loop of invoke_tools
    weather,        \* one invocation of weather_check
    flights,        \* one invocation of flights_finder
    workers         \* two concurrent runs of the graph on one Agent instance

agent_vars == <<error_count, messages, thread_id, chat, warning, pc, llm_input,
                llm_calls, turns, pass, turn_passes, turn_failing, turn_fallbacks,
                turn_base>>

tool_vars == <<probe, weather, flights>>

vars == <<agent_vars, tool_vars, workers>>

Threads == 1..MaxThreads

NoPass == [n |-> 0, tool_calls |-> <<>>, outs |-> <<>>, invoked |-> <<>>,
           results |-> <<>>,
           failed_tools |-> <<>>, before |-> 0, after |-> 0, fallback |-> FALSE,
           returned |-> <<>>]

\* Values of the variables of the tool and concurrency specifications
\* while they are not in use.
NoProbe == [pc |-> "off"]
NoWeather == [pc |-> "off"]
NoFlights == [pc |-> "off"]
NoWorkers == <<>>

\* Agent.__init__ and initialize_agent on an empty session.
AgentInit ==
    /\ error_count = 0
    /\ messages = [t \in Threads |-> <<>>]
    /\ thread_id = 1
    /\ chat = <<>>
    /\ warning = FALSE
    /\ pc = "idle"
    /\ llm_input = <<>>
    /\ llm_calls = 0
    /\ turns = 0
    /\ pass = NoPass
    /\ turn_passes = 0
    /\ turn_failing = 0
    /\ turn_fallbacks = 0
    /\ turn_base = <<>>

Init ==
    /\ AgentInit
    /\ probe = NoProbe
    /\ weather = NoWeather
    /\ flights = NoFlights
    /\ workers = NoWorkers

\* ------------------------------------------------------------------------
\* The session: travel_assistant.py
\* ------------------------------------------------------------------------
\* send_message up to the entry of graph.invoke: the user message goes to
\* the displayed chat and, through the reducer, to the thread's history;
\* the graph starts at its entry point call_tools_llm.
send_message(message_content) ==
    /\ pc = "idle"
    /\ turns < MaxTurns
    /\ turns' = turns + 1
    /\ chat' = Append(chat, [role |-> "user", content |-> message_content])
    /\ messages' = [messages EXCEPT ![thread_id] =
                        operator_add(@, <<HumanMessage(message_content)>>)]
    /\ pc' = "call_tools_llm"
    /\ turn_passes' = 0
    /\ turn_failing' = 0
    /\ turn_fallbacks' = 0
    /\ turn_base' = messages[thread_id]
    /\ UNCHANGED <<error_count, thread_id, warning, llm_input, llm_calls, pass>>
    /\ UNCHANGED <<tool_vars, workers>>

\* send_message after graph.invoke returned: the last message of the
\* returned history is the assistant response.
send_message_return ==
    /\ pc = "END"
    /\ LET assistant_response == Last(messages[thread_id]).content
       IN /\ warning' = (\E error_marker \in {"[FLIGHTS ERROR]", "[HOTELS ERROR]"} :
                            Contains(assistant_response, error_marker))
          /\ chat' = Append(chat, [role |-> "assistant", content |-> assistant_response])
    /\ pc' = "idle"
    /\ UNCHANGED <<error_count, messages, thread_id, llm_input, llm_calls,
                   turns, pass, turn_passes, turn_failing, turn_fallbacks, turn_base>>
    /\ UNCHANGED <<tool_vars, workers>>

\* Variant of the except branch that reports the error and keeps the
\* session's Agent.
send_message_except_keeping_agent ==
    /\ pc = "raised"
    /\ pc' = "idle"
    /\ UNCHANGED <<error_count, messages, thread_id, chat, warning, llm_input, llm_calls,
                   turns, pass, turn_passes, turn_failing, turn_fallbacks, turn_base>>
    /\ UNCHANGED <<tool_vars, workers>>

\* The except branch of send_message: the session's Agent is deleted and
\* initialize_agent builds a new one (counter 0, empty MemorySaver);
\* thread_id and the displayed chat are kept.
send_message_except ==
    /\ pc = "raised"
    /\ error_count' = 0
    /\ messages' = [t \in Threads |-> <<>>]
    /\ pc' = "idle"
    /\ UNCHANGED <<thread_id, chat, warning, llm_input, llm_calls, turns,
                   pass, turn_passes, turn_failing, turn_fallbacks, turn_base>>
    /\ UNCHANGED <<tool_vars, workers>>

\* Variant of the Clear Conversation button that also gives the session a
\* new Agent.
clear_conversation_new_agent ==
    /\ pc = "idle"
    /\ thread_id < MaxThreads
    /\ chat' = <<>>
    /\ thread_id' = thread_id + 1
    /\ error_count' = 0
    /\ messages' = [t \in Threads |-> <<>>]
    /\ UNCHANGED <<warning, pc, llm_input, llm_calls,
                   turns, pass, turn_passes, turn_failing, turn_fallbacks, turn_base>>
    /\ UNCHANGED <<tool_vars, workers>>

\* The Clear Conversation button: a fresh thread_id (uuid4) and an empty
\* displayed chat; the Agent instance stays.
clear_conversation ==
    /\ pc = "idle"
    /\ thread_id < MaxThreads
    /\ chat' = <<>>
    /\ thread_id' = thread_id + 1
    /\ UNCHANGED <<error_count, messages, warning, pc, llm_input, llm_calls,
                   turns, pass, turn_passes, turn_failing, turn_fallbacks, turn_base>>
    /\ UNCHANGED <<tool_vars, workers>>

\* ------------------------------------------------------------------------
\* The graph: agents/agent.py
\* ------------------------------------------------------------------------
\* Variant in which the node swallows the provider's exception and stays
\* in place to call again.
propagate_retrying ==
    /\ pc' = pc
    /\ UNCHANGED messages

\* A provider call that fails: the exception leaves the node and
\* graph.invoke without a write to the thread's history.
propagate ==
    /\ pc' = "raised"
    /\ UNCHANGED messages

\* Node call_tools_llm: one model invocation on the system prompt plus the
\* thread's history; the response is appended and exists_action picks the
\* next node.
call_tools_llm ==
    /\ pc = "call_tools_llm"
    /\ llm_calls < MaxLlmCalls
    /\ llm_calls' = llm_calls + 1
    /\ llm_input' = with_system_prompt(messages[thread_id])
    /\ \/ \E reply \in ModelReplies(messages[thread_id]) :
            LET message == AIMessage(llm_calls + 1, reply.content, reply.names)
                after == operator_add(messages[thread_id], <<message>>)
            IN /\ messages' = [messages EXCEPT ![thread_id] = after]
               /\ pc' = edge_target(exists_action(after))
       \/ propagate
    /\ UNCHANGED <<error_count, thread_id, chat, warning, turns, pass,
                   turn_passes, turn_failing, turn_fallbacks, turn_base>>
    /\ UNCHANGED <<tool_vars, workers>>

\* Node invoke_tools: runs every requested tool, counts the pass as failed
\* once, and either returns the tool results or, with the counter at the
\* threshold, the response of _generate_fallback_plan.  The graph's edge
\* out of invoke_tools leads to call_tools_llm in both cases.
invoke_tools ==
    /\ pc = "invoke_tools"
    /\ LET state_messages == messages[thread_id]
           tool_calls == Last(state_messages).tool_calls
       IN \E outs \in OutcomesFor(tool_calls) :
            LET done == process_tool_calls(tool_calls, outs, 1, <<>>, <<>>)
                results == done.results
                failed_tools == done.failed_tools
                count == count_failure(error_count, failed_tools)
                this == [n |-> pass.n + 1, tool_calls |-> tool_calls, outs |-> outs,
                         invoked |-> [i \in 1..Len(tool_calls) |->
                                        call_tool(tool_calls[i], outs[i]).invoked],
                         results |-> results, failed_tools |-> failed_tools,
                         before |-> error_count, after |-> count]
            IN /\ error_count' = count
               /\ turn_passes' = turn_passes + 1
               /\ turn_failing' = IF \E i \in 1..Len(tool_calls) :
                                        CallFailed(tool_calls[i], outs[i])
                                  THEN turn_failing + 1
                                  ELSE turn_failing
               /\ IF count >= max_retries
                  THEN /\ llm_calls' = llm_calls + 1
                       /\ turn_fallbacks' = turn_fallbacks + 1
                       /\ llm_input' =
                            << SystemMessage(TOOLS_SYSTEM_PROMPT),
                               HumanMessage(fallback_prompt(state_messages[1].content,
                                                            failed_tools)) >>
                       /\ \/ \E reply \in ModelReplies(<<>>) :
                               LET final_message ==
                                     AIMessage(llm_calls + 1, reply.content, reply.names)
                               IN /\ messages' = [messages EXCEPT ![thread_id] =
                                                    operator_add(@, <<final_message>>)]
                                  /\ pc' = "call_tools_llm"
                                  /\ pass' = [fallback |-> TRUE,
                                              returned |-> <<final_message>>] @@ this
                          \/ /\ propagate
                             /\ pass' = [fallback |-> TRUE, returned |-> <<>>] @@ this
                  ELSE /\ messages' = [messages EXCEPT ![thread_id] =
                                          operator_add(@, results)]
                       /\ pc' = "call_tools_llm"
                       /\ pass' = [fallback |-> FALSE, returned |-> results] @@ this
                       /\ UNCHANGED <<llm_input, llm_calls, turn_fallbacks>>
    /\ UNCHANGED <<thread_id, chat, warning, turns, turn_base>>
    /\ UNCHANGED <<tool_vars, workers>>

Next ==
    \/ \E message_content \in UserPrompts : send_message(message_content)
    \/ send_message_return
    \/ send_message_except
    \/ clear_conversation
    \/ call_tools_llm
    \/ invoke_tools

Spec == Init /\ [][Next]_vars

\* ------------------------------------------------------------------------
\* Type invariant
\* ------------------------------------------------------------------------
TypeOK ==
    /\ error_count \in Nat
    /\ thread_id \in Threads
    /\ pc \in {"idle", "call_tools_llm", "invoke_tools", "END", "raised"}
    /\ llm_calls \in 0..(MaxLlmCalls + 1)
    /\ turns \in 0..MaxTurns
    /\ warning \in BOOLEAN
    /\ \A t \in Threads : \A i \in 1..Len(messages[t]) :
          messages[t][i].type \in {"human", "ai", "tool"}

\* ------------------------------------------------------------------------
\* Properties
\* ------------------------------------------------------------------------
\* C1: once a pass through invoke_tools has sent the fallback request and
\* got its response, the turn is over (END, then back to idle) after that
\* single fallback request, and the history the turn returns ends with the
\* fallback response.
C1_FallbackEndsTurn ==
    (turn_fallbacks > 0 /\ pass.returned # <<>>) =>
        /\ pc \in {"END", "idle"}
        /\ turn_fallbacks = 1
        /\ (pc = "END" => Last(messages[thread_id]) = pass.returned[1])

\* C2: when every pass of the running turn had a failed tool call, the loop
\* is about to run a further pass only while the failure counter is below
\* the threshold: it does not keep cycling between model and tools.
C2_FailingPassesBounded ==
    (pc = "invoke_tools" /\ turn_passes > 0 /\ turn_failing = turn_passes) =>
        error_count < max_retries

\* C3: after the fallback request has been sent in a turn, invoke_tools is
\* not entered again in that turn.
C3_NoToolsAfterFallback ==
    pc = "invoke_tools" => turn_fallbacks = 0

\* C4: the history handed to the model at every model invocation pairs each
\* assistant message carrying N >= 1 tool-call requests with exactly N
\* tool-result messages right after it, in request order.
C4_ModelInputWellPaired ==
    WellPaired(llm_input)

\* The messages msgs answer the requests of pass p one to one, in request
\* order, each with its request's call identifier and tool name.
Answers1to1(p, msgs) ==
    /\ Len(msgs) = Len(p.tool_calls)
    /\ \A i \in 1..Len(msgs) :
          /\ msgs[i].type = "tool"
          /\ msgs[i].tool_call_id = p.tool_calls[i].id
          /\ msgs[i].name = p.tool_calls[i].name

\* C5 as stated: every pass through invoke_tools returns exactly one
\* tool-result message per request, in request order, with the request's
\* call identifier and tool name.
C5_PassReturnsOneResultPerRequest ==
    pass.n > 0 => Answers1to1(pass, pass.returned)

\* C5 amended: every pass builds exactly one tool-result message per
\* request, in request order, with the request's call identifier and tool
\* name, and returns exactly these when it leaves the failure counter below
\* the threshold; at or above the threshold it returns the fallback response
\* alone, or nothing when the fallback model call fails.
C5_PassBuildsOneResultPerRequest ==
    pass.n > 0 =>
        /\ Answers1to1(pass, pass.results)
        /\ (pass.after < max_retries => pass.returned = pass.results)
        /\ (pass.after >= max_retries =>
               /\ Len(pass.returned) <= 1
               /\ \A i \in 1..Len(pass.returned) : pass.returned[i].type = "ai")

\* A pass that answered a successful call and a call to an unknown tool.
C5_Witness ==
    /\ pass.n > 0
    /\ pass.after < max_retries
    /\ Len(pass.tool_calls) = 2
    /\ pass.tool_calls[1].name \notin TOOLS
    /\ ~CallFailed(pass.tool_calls[2], pass.outs[2])
    /\ Answers1to1(pass, pass.returned)

\* Some call of pass p failed.
SomeCallFailed(p) ==
    \E i \in 1..Len(p.tool_calls) : CallFailed(p.tool_calls[i], p.outs[i])

\* C6: a pass through invoke_tools adds exactly 1 to the failure counter
\* when at least one of its calls failed, and nothing otherwise; below the
\* threshold the loop is then back at the model.
C6_OneIncrementPerFailingPass ==
    [][pc = "invoke_tools" =>
          /\ error_count' = error_count + (IF SomeCallFailed(pass') THEN 1 ELSE 0)
          /\ (error_count' < max_retries => pc' = "call_tools_llm")]_vars

\* A pass from counter 0 with one raising and one succeeding tool.
C6_Witness ==
    /\ pass.n > 0
    /\ pass.before = 0
    /\ Len(pass.tool_calls) = 2
    /\ pass.outs[1].kind = "value"
    /\ pass.outs[2].kind = "raise"
    /\ error_count = 1
    /\ pc = "call_tools_llm"

\* The tool-result message with the formatted error of call i of pass p.
ErrorResult(p, i) ==
    ToolMessage(p.tool_calls[i].id, p.tool_calls[i].name,
                format_error_message(p.tool_calls[i].name, p.outs[i].text))

\* Message m is among those that history new has beyond history old.
Appended(old, new, m) ==
    \E k \in (Len(old) + 1)..Len(new) : new[k] = m

\* C7 as stated: a tool call that raises or returns an error map raises
\* nothing out of the loop, and its formatted error is always appended to
\* the history as a tool-result message.
C7_ToolErrorAlwaysInHistory ==
    [][pc = "invoke_tools" =>
          \A i \in 1..Len(pass'.tool_calls) :
              pass'.outs[i].kind \in {"raise", "error_map"} =>
                  /\ (pc' = "raised" => llm_calls' = llm_calls + 1)
                  /\ Appended(messages[thread_id], messages'[thread_id],
                              ErrorResult(pass', i))]_vars

\* C7 amended: a tool call that raises or returns an error map raises
\* nothing out of the loop (only a failing fallback model call does); its
\* formatted error is appended to the history as a tool-result message,
\* with the loop back at the model, when the pass leaves the failure counter
\* below the threshold; at or above the threshold no tool-result message of
\* the pass is appended.
C7_ToolErrorInHistoryBelowThreshold ==
    [][pc = "invoke_tools" =>
          \A i \in 1..Len(pass'.tool_calls) :
              pass'.outs[i].kind \in {"raise", "error_map"} =>
                  /\ (pc' = "raised" =>
                         llm_calls' = llm_calls + 1 /\ error_count' >= max_retries)
                  /\ (error_count' < max_retries =>
                         /\ Appended(messages[thread_id], messages'[thread_id],
                                     ErrorResult(pass', i))
                         /\ pc' = "call_tools_llm")
                  /\ (error_count' >= max_retries =>
                         \A k \in (Len(messages[thread_id]) + 1)..Len(messages'[thread_id]) :
                             messages'[thread_id][k].type # "tool")]_vars

\* A pass below the threshold with an error map and a raising tool, both
\* formatted errors in the history the model is invoked with next.
C7_Witness ==
    /\ pass.n > 0
    /\ pass.after < max_retries
    /\ pc = "call_tools_llm"
    /\ Len(pass.tool_calls) = 2
    /\ pass.outs[1].kind = "error_map"
    /\ pass.outs[2].kind = "raise"
    /\ Len(messages[thread_id]) >= 2
    /\ messages[thread_id][Len(messages[thread_id]) - 1] = ErrorResult(pass, 1)
    /\ Last(messages[thread_id]) = ErrorResult(pass, 2)

\* The step made a model invocation that produced no response.
ModelCallFailed ==
    /\ llm_calls' = llm_calls + 1
    /\ \A k \in 1..Len(messages'[thread_id]) :
          messages'[thread_id][k].id # llm_calls + 1

\* C8: a failing model invocation leaves the loop as an exception after
\* that one call, appends nothing to any history, leaves the failure
\* counter as the tool calls of the same pass (if any) set it, and is not
\* followed by another model invocation of that turn.
C8_ModelErrorPropagates ==
    [][/\ ModelCallFailed =>
            /\ pc' = "raised"
            /\ messages' = messages
            /\ error_count' = error_count +
                  (IF pc = "invoke_tools" /\ SomeCallFailed(pass') THEN 1 ELSE 0)
       /\ pc = "raised" => llm_calls' = llm_calls]_vars

\* The fallback model invocation of a pass failed.
C8_Witness ==
    /\ pc = "raised"
    /\ pass.fallback
    /\ pass.returned = <<>>
    /\ turn_fallbacks = 1
    /\ error_count = pass.after

\* C9: a model response without tool-call requests takes the loop to END
\* with that response last in the history, and from END the turn only
\* returns: no pass through invoke_tools, no model invocation, no change of
\* the history, the response handed to the chat.
C9_NoToolCallsEndsTurn ==
    [][/\ (pc = "call_tools_llm" /\ pc' # "raised") =>
            /\ Last(messages'[thread_id]).id = llm_calls'
            /\ (Len(Last(messages'[thread_id]).tool_calls) = 0 => pc' = "END")
       /\ pc = "END" =>
            /\ pc' = "idle"
            /\ pass' = pass
            /\ llm_calls' = llm_calls
            /\ messages' = messages
            /\ Last(chat') = [role |-> "assistant",
                              content |-> Last(messages[thread_id]).content]]_vars

\* The very first model invocation answered without tool calls.
C9_Witness ==
    /\ pc = "END"
    /\ llm_calls = 1
    /\ pass.n = 0
    /\ Len(messages[thread_id]) = 2
    /\ Last(messages[thread_id]).type = "ai"

\* C10: on one Agent instance every thread's history only grows by
\* appending; a turn starts by appending the new user message to the
\* history persisted under thread_id; and the first model invocation on a
\* thread without history gets the system prompt and that user message only.
C10_HistoryAppendOnly ==
    [][/\ pc # "raised" =>
            \A t \in Threads : IsPrefix(messages[t], messages'[t])
       /\ (pc = "idle" /\ pc' = "call_tools_llm") =>
            /\ turn_base' = messages[thread_id]
            /\ messages'[thread_id] =
                  messages[thread_id] \o <<HumanMessage(Last(chat').content)>>
       /\ (pc = "call_tools_llm" /\ turn_base = <<>> /\ turn_passes = 0) =>
            llm_input' = <<SystemMessage(TOOLS_SYSTEM_PROMPT),
                           HumanMessage(Last(chat).content)>>
       /\ (pc = "invoke_tools" /\ pc' # "raised") =>
            Len(messages'[thread_id]) > Len(messages[thread_id])]_vars

\* The second turn on a thread ended: its history extends the first
\* turn's final history by the user message and the answer at least.
C10_Witness ==
    /\ turns = 2
    /\ pc = "END"
    /\ Len(turn_base) >= 2
    /\ IsPrefix(turn_base, messages[thread_id])
    /\ Len(messages[thread_id]) >= Len(turn_base) + 2
    /\ messages[thread_id][Len(turn_base) + 1].type = "human"

\* C11: the loop never resets or decreases the failure counter of an Agent
\* instance: only a pass through invoke_tools changes it, upwards, and
\* starting a turn, ending one, invoking the model or changing the thread
\* leaves it as it is.  (The except branch of send_message installs a new
\* instance.)
C11_CounterNeverDecreases ==
    [][/\ pc # "raised" => error_count' >= error_count
       /\ pc \in {"idle", "call_tools_llm", "END"} => error_count' = error_count]_vars

\* A failing pass in the second turn, on the second thread, took the
\* counter from 2, reached in the first turn on the first thread, to 3.
C11_Witness ==
    /\ turns = 2
    /\ thread_id = 2
    /\ turn_passes = 1
    /\ turn_failing = 1
    /\ pass.before = 2
    /\ error_count = max_retries

\* History h has no orphaned tool-result: every tool-result message comes
\* after an assistant message with only tool-result messages in between,
\* and it is the only one of them that answers its request, which is
\* exactly one request of that assistant message.
NoOrphans(h) ==
    \A k \in 1..Len(h) :
        h[k].type = "tool" =>
            \E j \in 1..(k - 1) :
                /\ h[j].type = "ai"
                /\ \A m \in (j + 1)..(k - 1) :
                      h[m].type = "tool" /\ h[m].tool_call_id # h[k].tool_call_id
                /\ Cardinality({r \in 1..Len(h[j].tool_calls) :
                                   h[j].tool_calls[r].id = h[k].tool_call_id}) = 1

\* C13: no persisted history ever contains an orphaned tool-result.
C13_NoOrphanedToolResult ==
    \A t \in Threads : NoOrphans(messages[t])

\* A history that ends with the two tool results of a pass.
C13_Witness ==
    /\ pass.n > 0
    /\ ~pass.fallback
    /\ Len(messages[thread_id]) >= 4
    /\ Last(messages[thread_id]).type = "tool"
    /\ messages[thread_id][Len(messages[thread_id]) - 1].type = "tool"
    /\ messages[thread_id][Len(messages[thread_id]) - 2].type = "ai"

\* Name is among the names recorded in failed_tools.
RecordedFailed(failed_tools, name) ==
    \E k \in 1..Len(failed_tools) : failed_tools[k] = name

\* C16: for a request naming a tool absent from the registry no tool
\* implementation is invoked, the name is recorded as failed (the pass
\* counts as failing), its result message is the formatted "not found"
\* error, and every later request of the pass is still executed and
\* answered at its position.
C16_UnknownToolIsFailure ==
    pass.n > 0 =>
        \A i \in 1..Len(pass.tool_calls) :
            pass.tool_calls[i].name \notin TOOLS =>
                /\ ~pass.invoked[i]
                /\ RecordedFailed(pass.failed_tools, pass.tool_calls[i].name)
                /\ pass.after = pass.before + 1
                /\ pass.results[i] =
                     ToolMessage(pass.tool_calls[i].id, pass.tool_calls[i].name,
                         "[" \o upper(pass.tool_calls[i].name) \o " ERROR] Tool '"
                             \o pass.tool_calls[i].name \o "' not found"
                             \o ". The assistant will continue with available information.")
                /\ \A j \in (i + 1)..Len(pass.tool_calls) :
                      pass.tool_calls[j].name \in TOOLS =>
                          /\ pass.invoked[j]
                          /\ pass.results[j].tool_call_id = pass.tool_calls[j].id
                          /\ pass.results[j].name = pass.tool_calls[j].name
                          /\ (pass.outs[j].kind = "value" =>
                                 pass.results[j].content = pass.outs[j].text)

\* A pass whose first request names an unknown tool and whose second
\* request was executed with success.
C16_Witness ==
    /\ pass.n > 0
    /\ Len(pass.tool_calls) = 2
    /\ pass.tool_calls[1].name = "car_rental"
    /\ ~pass.invoked[1]
    /\ pass.invoked[2]
    /\ pass.results[2].content = "{weather}"
    /\ pass.failed_tools = <<"car_rental">>

\* C17: every fallback request names the tools whose calls failed in the
\* pass that sent it, and at least one.
C17_FallbackNamesFailedTool ==
    (pass.n > 0 /\ pass.fallback) =>
        /\ pass.failed_tools # <<>>
        /\ \A i \in 1..Len(pass.tool_calls) :
              CallFailed(pass.tool_calls[i], pass.outs[i]) <=>
                  RecordedFailed(pass.failed_tools, pass.tool_calls[i].name)

\* C18: no persisted history holds a system message, and the message list
\* of every model invocation, normal or fallback, has exactly one system
\* message, the constant prompt, in first place.
C18_SystemPromptNotPersisted ==
    /\ \A t \in Threads : \A i \in 1..Len(messages[t]) :
          messages[t][i].type # "system"
    /\ llm_input # <<>> =>
          /\ llm_input[1] = SystemMessage(TOOLS_SYSTEM_PROMPT)
          /\ \A i \in 2..Len(llm_input) : llm_input[i].type # "system"

\* The latest model invocation was a fallback request: the system prompt
\* and the fallback prompt.
C18_Witness ==
    /\ pass.fallback
    /\ pass.returned # <<>>
    /\ pc = "call_tools_llm"
    /\ Len(llm_input) = 2
    /\ llm_input[1].type = "system"
    /\ llm_input[2] = HumanMessage(fallback_prompt(messages[thread_id][1].content,
                                                   pass.failed_tools))

\* C20: when the answer handed to the chat contains the error string that
\* invoke_tools formats for a failed flights_finder or hotels_finder call,
\* send_message has shown the warning.
C20_DegradedAnswerWarned ==
    (/\ pc = "idle"
     /\ chat # <<>>
     /\ Last(chat).role = "assistant"
     /\ \E tool_name \in {"flights_finder", "hotels_finder"} :
           Contains(Last(chat).content, format_error_message(tool_name, ErrorText)))
    => warning

\* ------------------------------------------------------------------------
\* Specification SpecFormat: one tool call that fails with the same text in
\* both ways, handed to the loop of invoke_tools
\* ------------------------------------------------------------------------
ErrorTexts == {"API key missing", "Connection timed out", "429 Too Many Requests",
               "X", ""}

InitFormat ==
    /\ AgentInit
    /\ probe \in {[pc |-> "ready", tool_call |-> [name |-> n, id |-> i], text |-> x] :
                    n \in TOOLS, i \in 1..MaxCallId, x \in ErrorTexts}
    /\ weather = NoWeather
    /\ flights = NoFlights
    /\ workers = NoWorkers

\* The loop of invoke_tools on the single request, once with the tool
\* raising an error with message text, once with the tool returning
\* {"error": text}.
probe_tool_failure ==
    /\ probe.pc = "ready"
    /\ probe' = [pc |-> "done", tool_call |-> probe.tool_call, text |-> probe.text,
                 by_raise |-> process_tool_calls(<<probe.tool_call>>,
                                 <<[kind |-> "raise", text |-> probe.text]>>,
                                 1, <<>>, <<>>),
                 by_error_map |-> process_tool_calls(<<probe.tool_call>>,
                                 <<[kind |-> "error_map", text |-> probe.text]>>,
                                 1, <<>>, <<>>)]
    /\ UNCHANGED <<agent_vars, weather, flights, workers>>

NextFormat == probe_tool_failure

SpecFormat == InitFormat /\ [][NextFormat]_vars

\* C12: for the same tool name and text X, the raising call and the call
\* returning {"error": X} get the same tool-result content,
\* "[<TOOL NAME UPPERCASED> ERROR] X. The assistant will continue with
\* available information.", and both record the tool name as failed.
C12_RaiseAndErrorMapAlike ==
    probe.pc = "done" =>
        /\ probe.by_raise.results[1].content = probe.by_error_map.results[1].content
        /\ probe.by_raise.results[1].content =
              "[" \o upper(probe.tool_call.name) \o " ERROR] " \o probe.text
                  \o ". The assistant will continue with available information."
        /\ probe.by_raise.failed_tools = <<probe.tool_call.name>>
        /\ probe.by_error_map.failed_tools = <<probe.tool_call.name>>

\* flights_finder failed both ways with "API key missing".
C12_Witness ==
    /\ probe.pc = "done"
    /\ probe.tool_call.name = "flights_finder"
    /\ probe.text = "API key missing"
    /\ probe.by_raise.results = probe.by_error_map.results
    /\ probe.by_error_map.results[1].content =
          "[FLIGHTS_FINDER ERROR] API key missing. The assistant will continue with available information."

\* ------------------------------------------------------------------------
\* Specification SpecWeather: one invocation of weather_check, its return
\* value handed to the loop of invoke_tools
\* ------------------------------------------------------------------------
\* Variant of weather_check that reports a date beyond the horizon as an
\* error.
weather_check_error_beyond_horizon(api_key, date_valid, days_ahead, upstream) ==
    IF ~api_key
    THEN [keys |-> {"error"}, text |-> "WEATHER_API_KEY environment variable is not set."]
    ELSE IF ~date_valid
    THEN [keys |-> {"error"}, text |-> "Invalid date format. Must be in YYYY-MM-DD format."]
    ELSE IF days_ahead < 0
    THEN [keys |-> {"error"}, text |-> "Cannot check weather for a past date."]
    ELSE IF days_ahead > max_forecast_days
    THEN [keys |-> {"error"}, text |-> "Real-time weather forecast is not available."]
    ELSE IF upstream = "forecast"
    THEN [keys |-> {"location", "date", "condition", "avg_temp_c", "max_temp_c",
                    "min_temp_c", "source"},
          text |-> "{weather}"]
    ELSE IF upstream = "no_forecast"
    THEN [keys |-> {"error"}, text |-> "No weather data available."]
    ELSE [keys |-> {"error"}, text |-> "Weather API error: upstream"]

\* weather_check: the map it returns (its keys and its text), given whether
\* WEATHER_API_KEY is set, whether params.date parses as YYYY-MM-DD, the
\* number of days from today to that date, and what the weather API does
\* ("forecast", "no_forecast": a response without forecast data, "raise").
weather_check(api_key, date_valid, days_ahead, upstream) ==
    IF ~api_key
    THEN [keys |-> {"error"}, text |-> "WEATHER_API_KEY environment variable is not set."]
    ELSE IF ~date_valid
    THEN [keys |-> {"error"}, text |-> "Invalid date format. Must be in YYYY-MM-DD format."]
    ELSE IF days_ahead < 0
    THEN [keys |-> {"error"}, text |-> "Cannot check weather for a past date."]
    ELSE IF days_ahead > max_forecast_days
    THEN [keys |-> {"info"}, text |-> "Real-time weather forecast is not available."]
    ELSE IF upstream = "forecast"
    THEN [keys |-> {"location", "date", "condition", "avg_temp_c", "max_temp_c",
                    "min_temp_c", "source"},
          text |-> "{weather}"]
    ELSE IF upstream = "no_forecast"
    THEN [keys |-> {"error"}, text |-> "No weather data available."]
    ELSE [keys |-> {"error"}, text |-> "Weather API error: upstream"]

\* What invoke_tools sees of a map a tool returned:
\* "isinstance(result, dict) and 'error' in result".
returned_map(result) ==
    IF "error" \in result.keys
    THEN [kind |-> "error_map", text |-> result.text]
    ELSE [kind |-> "value", text |-> result.text]

InitWeather ==
    /\ AgentInit
    /\ weather \in {[pc |-> "ready", api_key |-> k, date_valid |-> v, days_ahead |-> d,
                     upstream |-> u] :
                       k \in BOOLEAN, v \in BOOLEAN,
                       d \in (0 - DaysMargin)..(max_forecast_days + DaysMargin),
                       u \in {"forecast", "no_forecast", "raise"}}
    /\ probe = NoProbe
    /\ flights = NoFlights
    /\ workers = NoWorkers

\* One request for weather_check goes through the loop of invoke_tools.
invoke_weather_check ==
    /\ weather.pc = "ready"
    /\ LET result == weather_check(weather.api_key, weather.date_valid,
                                   weather.days_ahead, weather.upstream)
           done == process_tool_calls(<<[name |-> "weather_check", id |-> 1]>>,
                                      <<returned_map(result)>>, 1, <<>>, <<>>)
       IN weather' = [weather EXCEPT !.pc = "done"] @@
                     [result |-> result, failed_tools |-> done.failed_tools,
                      message |-> done.results[1]]
    /\ UNCHANGED <<agent_vars, probe, flights, workers>>

NextWeather == invoke_weather_check

SpecWeather == InitWeather /\ [][NextWeather]_vars

\* The requested date is well-formed and the API key is set.
WeatherDateChecked ==
    weather.pc = "done" /\ weather.api_key /\ weather.date_valid

\* C14 as stated: for a well-formed date outside the valid range, in the
\* past or more than 14 days ahead, weather_check returns a map without an
\* "error" key and the call does not count as failed.
C14_OutOfRangeIsInformational ==
    (WeatherDateChecked /\
       (weather.days_ahead < 0 \/ weather.days_ahead > max_forecast_days)) =>
        /\ "error" \notin weather.result.keys
        /\ weather.failed_tools = <<>>

\* C14 amended: for a well-formed date more than 14 days ahead weather_check
\* returns an informational map without an "error" key and the call does
\* not count as failed; for a date in the past it returns the error map
\* "Cannot check weather for a past date." and the call counts as failed.
C14_BeyondHorizonIsInformational ==
    /\ (WeatherDateChecked /\ weather.days_ahead > max_forecast_days) =>
          /\ weather.result.keys = {"info"}
          /\ weather.failed_tools = <<>>
          /\ weather.message.content = weather.result.text
    /\ (WeatherDateChecked /\ weather.days_ahead < 0) =>
          /\ weather.result = [keys |-> {"error"},
                               text |-> "Cannot check weather for a past date."]
          /\ weather.failed_tools = <<"weather_check">>

\* A date 15 days ahead got the informational map.
C14_Witness ==
    /\ WeatherDateChecked
    /\ weather.days_ahead = max_forecast_days + 1
    /\ weather.result.keys = {"info"}
    /\ weather.failed_tools = <<>>

\* ------------------------------------------------------------------------
\* Specification SpecFlights: one invocation of flights_finder, one step per
\* validation, upstream search and retry delay
\* ------------------------------------------------------------------------
NoResult == [kind |-> "none", len |-> 0, text |-> ""]

error_map(text) == [kind |-> "error_map", len |-> 0, text |-> text]

\* What one call of serpapi.search and the processing of its response can
\* do: a response with n best flights, a response without 'best_flights',
\* a response whose options cannot be processed (the processing raises),
\* a SerpApiError, any other exception.
SearchOutcomes ==
    {[kind |-> "best_flights", n |-> n] : n \in 0..MaxBestFlights} \cup
    {[kind |-> k, n |-> 0] : k \in {"no_data", "malformed", "SerpApiError", "Exception"}}

Raising == {"malformed", "SerpApiError", "Exception"}

\* The checks before the retry loop: the text of the error map returned, or
\* "" when every check passes.
validate(f) ==
    IF ~f.api_key THEN "SERPAPI_API_KEY environment variable is not set."
    ELSE IF ~f.departure_ok THEN "Invalid departure airport code. Must be a valid 3-letter IATA code."
    ELSE IF ~f.arrival_ok THEN "Invalid arrival airport code. Must be a valid 3-letter IATA code."
    ELSE IF ~f.outbound_ok THEN "Invalid outbound date format. Must be in YYYY-MM-DD format."
    ELSE IF f.return_date = "invalid" THEN "Invalid return date format. Must be in YYYY-MM-DD format."
    ELSE ""

\* Variant of the except clauses that surfaces the error on the first
\* failed attempt.
except_clause_without_retry(attempt, kind) ==
    [pc |-> "done",
     result |-> error_map(IF kind = "SerpApiError"
                          THEN "SerpAPI error: upstream. Please try again later."
                          ELSE "Unexpected error: upstream. Please try again later.")]

\* The two except clauses of the retry loop: sleep and try again while
\* attempt < max_retries - 1, the error map on the last attempt.
except_clause(attempt, kind) ==
    IF attempt < flights_max_retries - 1
    THEN [pc |-> "sleep", result |-> NoResult]
    ELSE [pc |-> "done",
          result |-> error_map(IF kind = "SerpApiError"
                               THEN "SerpAPI error: upstream. Please try again later."
                               ELSE "Unexpected error: upstream. Please try again later.")]

\* formatted_results[:5]
truncate(n) == IF n > flights_returned THEN flights_returned ELSE n

\* The body of the try statement and its except clauses, for one attempt.
try_search(attempt, outcome) ==
    IF outcome.kind = "no_data"
    THEN [pc |-> "done",
          result |-> error_map("No flight results found or unexpected API response format.")]
    ELSE IF outcome.kind = "best_flights"
    THEN [pc |-> "done", result |-> [kind |-> "list", len |-> truncate(outcome.n), text |-> ""]]
    ELSE except_clause(attempt, outcome.kind)

InitFlights ==
    /\ AgentInit
    /\ flights \in {[pc |-> "validate", api_key |-> k, departure_ok |-> d, arrival_ok |-> a,
                     outbound_ok |-> o, return_date |-> r, attempt |-> 0,
                     searches |-> <<>>, result |-> NoResult] :
                       k \in BOOLEAN, d \in BOOLEAN, a \in BOOLEAN, o \in BOOLEAN,
                       r \in {"none", "valid", "invalid"}}
    /\ probe = NoProbe
    /\ weather = NoWeather
    /\ workers = NoWorkers

\* API key, airport codes and dates are checked; a failed check returns
\* an error map, otherwise the loop starts with attempt = 0.
flights_finder_validate ==
    /\ flights.pc = "validate"
    /\ flights' = IF validate(flights) = ""
                  THEN [flights EXCEPT !.pc = "search"]
                  ELSE [flights EXCEPT !.pc = "done", !.result = error_map(validate(flights))]
    /\ UNCHANGED <<agent_vars, probe, weather, workers>>

\* One iteration of "for attempt in range(max_retries)".
flights_finder_search(outcome) ==
    /\ flights.pc = "search"
    /\ flights.attempt < flights_max_retries
    /\ LET step == try_search(flights.attempt, outcome)
       IN flights' = [flights EXCEPT !.pc = step.pc,
                                     !.result = step.result,
                                     !.searches = Append(@, outcome.kind)]
    /\ UNCHANGED <<agent_vars, probe, weather, workers>>

\* time.sleep(retry_delay), then the next value of attempt.
flights_finder_sleep ==
    /\ flights.pc = "sleep"
    /\ flights' = [flights EXCEPT !.pc = "search", !.attempt = @ + 1]
    /\ UNCHANGED <<agent_vars, probe, weather, workers>>

NextFlights ==
    \/ flights_finder_validate
    \/ \E outcome \in SearchOutcomes : flights_finder_search(outcome)
    \/ flights_finder_sleep

SpecFlights == InitFlights /\ [][NextFlights]_vars

\* The error maps of the except clauses.
RaisingUpstreamError ==
    /\ flights.result.kind = "error_map"
    /\ flights.result.text \in {"SerpAPI error: upstream. Please try again later.",
                                "Unexpected error: upstream. Please try again later."}

\* C15: one invocation of flights_finder calls the upstream search at most
\* 3 times, makes a further attempt only after the previous attempt raised,
\* surfaces the error map of a raising upstream only after the third failed
\* attempt, and ends by returning a list of at most 5 entries or an error
\* map, never by raising.
C15_RetriesBoundedAndValueReturned ==
    /\ Len(flights.searches) <= flights_max_retries
    /\ \A i \in 1..(Len(flights.searches) - 1) : flights.searches[i] \in Raising
    /\ RaisingUpstreamError =>
          /\ Len(flights.searches) = flights_max_retries
          /\ \A i \in 1..Len(flights.searches) : flights.searches[i] \in Raising
    /\ flights.pc \in {"validate", "search", "sleep", "done"}
    /\ flights.pc = "search" => flights.attempt < flights_max_retries
    /\ flights.pc = "done" =>
          \/ flights.result.kind = "list" /\ flights.result.len <= flights_returned
          \/ flights.result.kind = "error_map"

\* Three attempts raised and the error map of the last one was returned.
C15_Witness ==
    /\ flights.pc = "done"
    /\ flights.searches = <<"SerpApiError", "Exception", "SerpApiError">>
    /\ flights.result = error_map("SerpAPI error: upstream. Please try again later.")

\* ------------------------------------------------------------------------
\* Specification SpecConc: graph.invoke runs on one Agent in two OS threads,
\* one per conversation thread; "self._error_count += 1" is a load of the
\* attribute, an addition and a store, and the threads can interleave
\* between the load and the store
\* ------------------------------------------------------------------------
Workers == 1..2

\* Everything of the agent but the counter the two runs share.
session_vars == <<messages, thread_id, chat, warning, pc, llm_input, llm_calls, turns,
                  pass, turn_passes, turn_failing, turn_fallbacks, turn_base>>

InitConc ==
    /\ AgentInit
    /\ workers = [w \in Workers |->
                    [pc |-> "call_tools_llm", loaded |-> 0, passes |-> 0, failing |-> 0,
                     fallbacks |-> 0]]
    /\ probe = NoProbe
    /\ weather = NoWeather
    /\ flights = NoFlights

\* call_tools_llm and the conditional edge exists_action of one run: the
\* model requests tools or gives its final answer.
worker_call_tools_llm(w, tool_calls) ==
    /\ workers[w].pc = "call_tools_llm"
    /\ tool_calls # <<>> => workers[w].passes < MaxWorkerPasses
    /\ workers' = [workers EXCEPT ![w].pc = edge_target(exists_action(<<AIMessage(1, "", tool_calls)>>))]
    /\ UNCHANGED <<error_count, session_vars, tool_vars>>

\* The loop over the tool calls in invoke_tools: some call failed or none.
worker_run_tools(w, failed) ==
    /\ workers[w].pc = "invoke_tools"
    /\ workers' = [workers EXCEPT ![w].pc = IF failed THEN "load" ELSE "check",
                                  ![w].passes = @ + 1,
                                  ![w].failing = IF failed THEN @ + 1 ELSE @]
    /\ UNCHANGED <<error_count, session_vars, tool_vars>>

\* "self._error_count += 1", first half: the attribute is read.
worker_load_count(w) ==
    /\ workers[w].pc = "load"
    /\ workers' = [workers EXCEPT ![w].pc = "store", ![w].loaded = error_count]
    /\ UNCHANGED <<error_count, session_vars, tool_vars>>

\* "self._error_count += 1", second half: the sum is stored.
worker_store_count(w) ==
    /\ workers[w].pc = "store"
    /\ error_count' = workers[w].loaded + 1
    /\ workers' = [workers EXCEPT ![w].pc = "check"]
    /\ UNCHANGED <<session_vars, tool_vars>>

\* "if self._error_count >= self._max_retries", then the edge back to
\* call_tools_llm.
worker_check_retries(w) ==
    /\ workers[w].pc = "check"
    /\ workers' = [workers EXCEPT ![w].pc = "call_tools_llm",
                                  ![w].fallbacks = IF error_count >= max_retries
                                                   THEN @ + 1 ELSE @]
    /\ UNCHANGED <<error_count, session_vars, tool_vars>>

NextConc ==
    \E w \in Workers :
        \/ \E tool_calls \in ToolCallRequests : worker_call_tools_llm(w, tool_calls)
        \/ \E failed \in BOOLEAN : worker_run_tools(w, failed)
        \/ worker_load_count(w)
        \/ worker_store_count(w)
        \/ worker_check_retries(w)

SpecConc == InitConc /\ [][NextConc]_vars

\* C19: when both runs have finished, the failure counter equals the number
\* of tool passes, over both threads, that contained a failure.
C19_NoLostIncrement ==
    (\A w \in Workers : workers[w].pc = "END") =>
        error_count = workers[1].failing + workers[2].failing

\* ------------------------------------------------------------------------
\* Specification SpecCarried: the session on an Agent instance that has
\* served earlier conversations, so that its failure counter is anywhere
\* from 0 to the threshold when a conversation starts on a fresh thread
\* ------------------------------------------------------------------------
InitCarried ==
    /\ error_count \in 0..max_retries
    /\ messages = [t \in Threads |-> <<>>]
    /\ thread_id = 1
    /\ chat = <<>>
    /\ warning = FALSE
    /\ pc = "idle"
    /\ llm_input = <<>>
    /\ llm_calls = 0
    /\ turns = 0
    /\ pass = NoPass
    /\ turn_passes = 0
    /\ turn_failing = 0
    /\ turn_fallbacks = 0
    /\ turn_base = <<>>
    /\ probe = NoProbe
    /\ weather = NoWeather
    /\ flights = NoFlights
    /\ workers = NoWorkers

SpecCarried == InitCarried /\ [][Next]_vars

\* The step is a pass through invoke_tools that starts with the failure
\* counter at or above the threshold.
PassAtThreshold ==
    pc = "invoke_tools" /\ error_count >= max_retries

\* The pass of the step ran the loop over every request of the latest
\* assistant message and invoked every registered tool among them.
AllToolsExecuted ==
    /\ pass'.tool_calls = Last(messages[thread_id]).tool_calls
    /\ Len(pass'.results) = Len(pass'.tool_calls)
    /\ \A i \in 1..Len(pass'.tool_calls) :
          pass'.tool_calls[i].name \in TOOLS => pass'.invoked[i]

\* The step appended one assistant message, the fallback response, and
\* nothing else to the current thread's history.
FallbackResponseAppended ==
    /\ Len(messages'[thread_id]) = Len(messages[thread_id]) + 1
    /\ SubSeq(messages'[thread_id], 1, Len(messages[thread_id])) = messages[thread_id]
    /\ Last(messages'[thread_id]).type = "ai"
    /\ pass'.returned = <<Last(messages'[thread_id])>>

\* C21 as stated: once the failure counter is at or above 3, every later
\* pass through invoke_tools, in any turn and any thread, executes all
\* requested tools, discards their result messages and appends a fallback
\* response instead, whether or not a call of the pass failed.
C21_PassAtThresholdAppendsFallback ==
    [][PassAtThreshold =>
          /\ AllToolsExecuted
          /\ pass'.fallback
          /\ FallbackResponseAppended]_vars

\* C21 amended: once the failure counter is at or above 3, every later pass
\* through invoke_tools, in any turn and any thread, invokes every
\* requested tool that is registered, discards the result messages and
\* sends the fallback request, whether or not a call of the pass failed;
\* the fallback response is appended instead of the results when that
\* model invocation returns, and when it fails the error leaves the loop
\* and nothing is appended.
C21_PassAtThresholdSendsFallback ==
    [][PassAtThreshold =>
          /\ AllToolsExecuted
          /\ pass'.fallback
          /\ error_count' >= max_retries
          /\ llm_calls' = llm_calls + 1
          /\ llm_input' = << SystemMessage(TOOLS_SYSTEM_PROMPT),
                             HumanMessage(fallback_prompt(messages[thread_id][1].content,
                                                          pass'.failed_tools)) >>
          /\ (pc' # "raised" => FallbackResponseAppended)
          /\ (pc' = "raised" => messages' = messages /\ pass'.returned = <<>>)]_vars

\* In a second turn, on a second thread, a pass that started at the
\* threshold and had no failed call was answered by the fallback response.
C21_Witness ==
    /\ thread_id = 2
    /\ turns = 2
    /\ pass.n > 0
    /\ pass.before >= max_retries
    /\ ~SomeCallFailed(pass)
    /\ pass.fallback
    /\ pass.returned # <<>>
    /\ Last(messages[thread_id]) = pass.returned[1]

\* ------------------------------------------------------------------------
\* The session after an error and after Clear Conversation
\* ------------------------------------------------------------------------
\* C22: when the agent invocation raises inside send_message, the session
\* gets a new Agent while thread_id is kept: the failure counter is back at
\* 0, the history persisted under that thread_id (and under every other) is
\* gone for the next turn, and the displayed chat keeps the user message of
\* the failed turn as its last entry, without an assistant reply.
C22_ErrorReplacesAgent ==
    [][pc = "raised" =>
          /\ pc' = "idle"
          /\ error_count' = 0
          /\ thread_id' = thread_id
          /\ Len(messages[thread_id]) > Len(turn_base)
          /\ \A t \in Threads : messages'[t] = <<>>
          /\ chat' = chat
          /\ chat # <<>>
          /\ Last(chat).role = "user"
          /\ Last(chat).content = messages[thread_id][Len(turn_base) + 1].content]_vars

\* After a turn in which a tool pass had counted a failure and a model
\* invocation then failed: counter 0, no history, the user message last in
\* the chat.
C22_Witness ==
    /\ pc = "idle"
    /\ turns > 0
    /\ pass.n > 0
    /\ pass.after > 0
    /\ turn_failing > 0
    /\ error_count = 0
    /\ messages[thread_id] = <<>>
    /\ chat # <<>>
    /\ Last(chat).role = "user"

\* C23: Clear Conversation replaces thread_id by a fresh one (nothing is
\* persisted under it) and empties the displayed chat, and leaves the Agent
\* with its failure counter and its persisted histories unchanged; a pass
\* of the new conversation sends the fallback request exactly when the
\* counter it found, failing passes of earlier conversations included, plus
\* its own failure reaches the threshold.
C23_ClearKeepsCounter ==
    [][/\ thread_id' # thread_id =>
            /\ pc = "idle" /\ pc' = "idle"
            /\ messages[thread_id'] = <<>>
            /\ chat' = <<>>
            /\ error_count' = error_count
            /\ messages' = messages
       /\ pc = "invoke_tools" =>
            /\ pass'.before = error_count
            /\ pass'.fallback <=>
                 (error_count + (IF SomeCallFailed(pass') THEN 1 ELSE 0) >= max_retries)]_vars

\* After a clear, the second failing pass of the new conversation reached
\* the threshold: the failing pass of the conversation before still counted.
C23_Witness ==
    /\ thread_id = 2
    /\ Len(turn_base) = 0
    /\ pass.n > 0
    /\ pass.fallback
    /\ pass.before = max_retries - 1
    /\ turn_failing = max_retries - 1
    /\ error_count = max_retries
    /\ messages[1] # <<>>

====
